---- MODULE Spec2Model ----
(***************************************************************************)
(* tfvm: a version manager for the terraform executable.                   *)
(*                                                                         *)
(* The model follows the command-line program (the snapshot that has       *)
(* commandRunner, fetchSum and the install/uninstall/use/list commands).   *)
(* Its state is the per-user store on disk (the files under versions/ and  *)
(* the "current" symlink) plus the position of the one call that is        *)
(* running.  The specifications share the function bodies:                 *)
(*   Spec        the yargs commands list/use/install/uninstall, one at a   *)
(*               time, each a fresh process, on a 64-bit linux machine;    *)
(*   SpecApi     the same, and the functions install, uninstall and        *)
(*               setCurrent called directly, one call at a time;           *)
(*   SpecHost    the commands on every kind of machine, supported or not;  *)
(*   SpecHasher  a sha256Stream on its own;                                *)
(*   SpecFair    Spec with every pending event's callback eventually run.  *)
(***************************************************************************)
EXTENDS Integers, Sequences, FiniteSets, TLC

\* ---------------------------------------------------------------- bounds
\* Largest number of chunks of an archive response that carry the entry.
MaxChunks == 1
\* Largest number of chunks of an archive response that follow the entry.
MaxTrailing == 1
\* Largest number of rows of a checksums manifest.
MaxRows == 1
\* Largest number of chunks written to a hasher stream on its own.
MaxWrites == 4

\* ------------------------------------------------------------ input sets
\* Version identifiers are opaque tokens.
Versions == {"0.11.14", "0.9.0"}
\* The values one chunk of archive bytes can take.
Bytes == {0, 1}
\* OpenPGP keys that may have produced a signature; publicKey is pinned.
Keys == {"hashicorp", "mallory"}
\* HTTP statuses of the archive response.
Statuses == {200, 404, 500}
\* null
Null == "null"

\* ------------------------------------------------------- paths and names
EXE_SUFFIX == ""
INSTALL_DIR == <<"~", ".tfvm">>
VERSIONS_DIR == INSTALL_DIR \o <<"versions">>
CURRENT_LINK == INSTALL_DIR \o <<<<"terraform", EXE_SUFFIX>>>>

\* basename terraform_<version><suffix>, kept as its three parts
getPath(version) == VERSIONS_DIR \o <<<<"terraform_", version, EXE_SUFFIX>>>>

\* the regular expression terraform_(.+)<suffix> applied to the basename
getVersion(p) == LET base == p[Len(p)] IN base[2]

\* ------------------------------------------------------------------ host
VARIABLE host      \* os.platform() and os.arch() of the machine tfvm runs on

\* values os.platform() and os.arch() may have
Platforms == {"win32", "darwin", "linux", "freebsd"}
Archs == {"ia32", "x64", "arm64"}

\* a function ended by returning a value or by throwing an error
Returned(value) == [threw |-> FALSE, error |-> "none", value |-> value]
Threw(error) == [threw |-> TRUE, error |-> error, value |-> "none"]

getArch ==
    CASE host.arch = "ia32" -> Returned("386")
      [] host.arch = "x64" -> Returned("amd64")
      [] OTHER -> Threw("Unsupported architecture: " \o host.arch)

getPlatform ==
    CASE host.platform = "win32" -> Returned("windows")
      [] host.platform = "darwin" -> Returned("darwin")
      [] host.platform = "linux" -> Returned("linux")
      [] OTHER -> Threw("Unsupported platform: " \o host.platform)

\* the error the template literal of getZipName ends with, "none" if none:
\* getPlatform() is evaluated before getArch()
getZipNameError ==
    IF getPlatform.threw THEN getPlatform.error
    ELSE IF getArch.threw THEN getArch.error
    ELSE "none"

getZipName(version) ==
    <<"terraform_", version, "_", getPlatform.value, "_", getArch.value, ".zip">>
getExeUrl(version) == <<"releases.hashicorp.com", "terraform", version, getZipName(version)>>
getSumsUrl(version) ==
    <<"releases.hashicorp.com", "terraform", version, <<"terraform_", version, "_SHA256SUMS">>>>
getSigUrl(version) ==
    <<"releases.hashicorp.com", "terraform", version, <<"terraform_", version, "_SHA256SUMS.sig">>>>

Paths == {getPath(v) : v \in Versions}
ZipNames == {getZipName(v) : v \in Versions}

\* ------------------------------------------------------------- sha256
\* The running hash is a fold over the chunks; distinct chunk sequences of
\* the bounded lengths get distinct digests.
HashInit == 0
HashUpdate(h, data) == 2 * h + data + 1

RECURSIVE Sha256(_)
Sha256(chunks) ==
    IF chunks = <<>> THEN HashInit
    ELSE HashUpdate(Sha256(SubSeq(chunks, 1, Len(chunks) - 1)), chunks[Len(chunks)])

\* what unzipper's ParseOne writes downstream for one chunk of the entry
Inflate(data) == data + 10

\* --------------------------------------------- manifest and signature
\* Digests a manifest row may carry: that of a one-chunk and of a
\* two-chunk archive.
RowDigests == {Sha256(<<0>>), Sha256(<<0, 1>>)}
\* digest('hex'): the digest as the string a manifest row carries
Hex(digest) == <<digest>>
Rows == [hash : {Hex(d) : d \in RowDigests}, name : ZipNames]

RECURSIVE SeqsUpTo(_, _)
SeqsUpTo(S, n) ==
    IF n = 0 THEN {<<>>}
    ELSE LET shorter == SeqsUpTo(S, n - 1)
         IN shorter \cup {Append(s, x) : s \in {t \in shorter : Len(t) = n - 1}, x \in S}

ManifestTexts == SeqsUpTo(Rows, MaxRows)

publicKey == "hashicorp"
PgpSign(key, text) == [key |-> key, over |-> text]
\* openpgp.verify of a detached signature over the text as received
PgpVerify(text, sig, keys) == sig.key \in keys /\ sig.over = text

Undefined == <<>>
\* sumsMap: later rows overwrite earlier ones with the same name
RECURSIVE SumsMapGet(_, _)
SumsMapGet(text, name) ==
    IF text = <<>> THEN Undefined
    ELSE IF text[Len(text)].name = name THEN text[Len(text)].hash
    ELSE SumsMapGet(SubSeq(text, 1, Len(text) - 1), name)

\* ------------------------------------------------------------------ state
VARIABLES
    file,          \* path -> the file at that path under versions/
    dirExists,     \* whether VERSIONS_DIR exists
    link,          \* CURRENT_LINK: <<>> when absent, else <<target path>>
    top,           \* the command or function the caller invoked
    pc,            \* position of the running call, "idle" between calls
    ver,           \* its version argument
    local,         \* locals of the running call
    result,        \* how the last call ended, as its caller sees it
    pre,           \* the store as it was when the running/last call began
    reqs,          \* URLs requested by the running/last call
    verified,      \* paths whose file passed the digest comparison
    compared,      \* the digest comparison of the running/last call:
                   \* "no" (not made), "equal" or "different"
    signature,     \* openpgp.verify in the running/last call:
                   \* "no" (not run), "valid" or "invalid"
    parsed,        \* the running/last call parsed the manifest
    symlinkResult, \* outcome of fs symlink in the running/last call
    aborted,       \* the status on which the running/last call called
                   \* req.abort(), NotAborted when it did not
    hasher         \* a sha256Stream on its own: what was written to it,
                   \* what waits in its writable buffer, where _transform
                   \* is, its _hash, the chunks _hash was updated with and
                   \* the chunks it has pushed downstream

store == <<file, dirExists, link>>
history == <<reqs, verified, compared, signature, parsed, symlinkResult, aborted>>
vars == <<host, hasher, file, dirExists, link, top, pc, ver, local, result, pre,
          reqs, verified, compared, signature, parsed, symlinkResult, aborted>>

\* the variables of the program around the hasher
program == <<host, file, dirExists, link, top, pc, ver, local, result, pre,
             reqs, verified, compared, signature, parsed, symlinkResult, aborted>>

\* new sha256Stream(): this._hash = crypto.createHash('sha256')
NewHasher ==
    [written |-> <<>>, buffer |-> <<>>, at |-> "ready",
     hash |-> HashInit, updates |-> <<>>, emitted |-> <<>>]

\* no status: req.abort() was not called
NotAborted == 0

NoFile == [exists |-> FALSE, content |-> <<>>, mode |-> "---------"]
\* a file just opened by fs.createWriteStream: empty, default mode
NewFile == [exists |-> TRUE, content |-> <<>>, mode |-> "rw-r--r--"]

NoResult ==
    [op |-> "none", version |-> Null, status |-> "none", error |-> "none", value |-> <<>>]

InitLocal ==
    [hash |-> HashInit, n |-> 0, entryEnded |-> FALSE, resEnded |-> FALSE,
     actualSum |-> Undefined, expectedSum |-> Undefined,
     sumsDone |-> FALSE, sigDone |-> FALSE, err |-> "none", target |-> Null]

\* the state before the first command, on whatever machine
InitHost ==
    /\ host \in [platform : Platforms, arch : Archs]
    /\ file = [p \in Paths |-> NoFile]
    /\ dirExists = FALSE
    /\ link = <<>>
    /\ top = "none"
    /\ pc = "idle"
    /\ ver = Null
    /\ local = InitLocal
    /\ result = NoResult
    /\ pre = [file |-> file, dirExists |-> dirExists, link |-> link]
    /\ reqs = {}
    /\ verified = {}
    /\ compared = "no"
    /\ signature = "no"
    /\ parsed = FALSE
    /\ symlinkResult = "none"
    /\ aborted = NotAborted
    /\ hasher = NewHasher

\* the same on a 64-bit linux machine
Init == InitHost /\ host = [platform |-> "linux", arch |-> "x64"]

\* fsPromises.stat(getPath(version)): ENOENT -> false
isInstalled(version) == file[getPath(version)].exists

\* fsPromises.readlink(CURRENT_LINK): ENOENT -> null
getCurrent == IF link = <<>> THEN Null ELSE getVersion(link[1])

\* A caller invokes op(version): a fresh call, nothing carried over.
Begin(op, version, first, target) ==
    /\ pc = "idle"
    /\ top' = op
    /\ ver' = version
    /\ pc' = first
    /\ local' = [InitLocal EXCEPT !.target = target]
    /\ result' = NoResult
    /\ pre' = [file |-> file, dirExists |-> dirExists, link |-> link]
    /\ reqs' = {}
    /\ compared' = "no"
    /\ signature' = "no"
    /\ parsed' = FALSE
    /\ symlinkResult' = "none"
    /\ aborted' = NotAborted
    /\ UNCHANGED <<store, host, hasher, verified>>

\* The call ends: it returns (status "ok") or its error reaches the caller.
\* For a command the caller is commandRunner, which catches the error.
ReturnValue(status, error, value) ==
    /\ pc' = "idle"
    /\ top' = "none"
    /\ ver' = Null
    /\ local' = InitLocal
    /\ result' = [op |-> top, version |-> ver, status |-> status, error |-> error,
                  value |-> value]
    /\ UNCHANGED pre

\* the same for a call that hands no value to its caller
Return(status, error) == ReturnValue(status, error, <<>>)

\* ---------------------------------------------------------------- install
\* (a local that is no longer read is put back to its initial value)
outputPath == getPath(ver)

\* install returned to its caller: installCommand goes on to its own check
InstallReturns ==
    IF top = "installCommand"
    THEN /\ pc' = "ic_getCurrent"
         /\ UNCHANGED <<top, ver, local, result, pre>>
    ELSE Return("ok", "none")

\* await fsPromises.mkdir(VERSIONS_DIR, {recursive: true})
InstallMkdir ==
    /\ pc = "i_mkdir"
    /\ dirExists' = TRUE
    /\ pc' = "i_request"
    /\ UNCHANGED <<host, hasher, file, link, top, ver, local, result, pre, history>>

\* request.get(getExeUrl(version)): getExeUrl is evaluated first and, where
\* getPlatform or getArch throws, the promise is rejected before any
\* request is made; otherwise the handlers are registered and
\* req.pipe(hashStream).pipe(unzipStream) sends the request
InstallRequest ==
    /\ pc = "i_request"
    /\ IF getZipNameError # "none"
       THEN /\ Return("error", getZipNameError)
            /\ UNCHANGED reqs
       ELSE /\ reqs' = reqs \cup {getExeUrl(ver)}
            /\ pc' = "i_response"
            /\ UNCHANGED <<top, ver, local, result, pre>>
    /\ UNCHANGED <<store, host, hasher, verified, aborted, compared, signature, parsed,
                   symlinkResult>>

\* fs.createWriteStream(path) on the file f at that path: a file that is
\* there is truncated and keeps its mode, otherwise a file is created
OpenForWrite(f) == IF f.exists THEN [f EXCEPT !.content = <<>>] ELSE NewFile

\* mutant of InstallResponseOk: the file is opened with the executable mode
InstallResponseOkExecutable ==
    /\ pc = "i_response"
    /\ file' = [file EXCEPT ![outputPath] = [NewFile EXCEPT !.mode = "rwxr-xr-x"]]
    /\ verified' = verified \ {outputPath}
    /\ pc' = "i_stream"
    /\ UNCHANGED <<dirExists, host, hasher, link, top, ver, local, result, pre,
                   reqs, aborted, compared, signature, parsed, symlinkResult>>

\* req 'response' with status 200: createWriteStream creates (or truncates)
\* the file at the final path
InstallResponseOk ==
    /\ pc = "i_response"
    /\ file' = [file EXCEPT ![outputPath] = OpenForWrite(@)]
    /\ verified' = verified \ {outputPath}
    /\ pc' = "i_stream"
    /\ UNCHANGED <<dirExists, host, hasher, link, top, ver, local, result, pre,
                   reqs, aborted, compared, signature, parsed, symlinkResult>>

\* new Error(`Download failed with status ${res.status}`)
DownloadFailed(status) == "Download failed with status " \o ToString(status)

\* mutant of InstallResponseBad: the write stream is created before the
\* status is looked at
InstallResponseBadOpensFile(status) ==
    /\ pc = "i_response"
    /\ status # 200
    /\ file' = [file EXCEPT ![outputPath] = NewFile]
    /\ aborted' = status
    /\ Return("error", DownloadFailed(status))
    /\ UNCHANGED <<dirExists, host, hasher, link, reqs, verified, compared, signature, parsed,
                   symlinkResult>>

\* mutant of InstallResponseBad: the request is aborted and the promise is
\* left pending
InstallResponseBadNoReject(status) ==
    /\ pc = "i_response"
    /\ status # 200
    /\ aborted' = status
    /\ pc' = "i_pending"
    /\ UNCHANGED <<store, host, hasher, top, ver, local, result, pre,
                   reqs, verified, compared, signature, parsed, symlinkResult>>

\* req 'response' with another status: req.abort(), reject
InstallResponseBad(status) ==
    /\ pc = "i_response"
    /\ status # 200
    /\ aborted' = status
    /\ Return("error", DownloadFailed(status))
    /\ UNCHANGED <<store, host, hasher, reqs, verified, compared, signature, parsed, symlinkResult>>

\* req 'error' before or while the body arrives: reject
InstallRequestError ==
    /\ pc \in {"i_response", "i_stream"}
    /\ ~local.resEnded
    /\ Return("error", "request error")
    /\ UNCHANGED <<store, host, hasher, history>>

\* One chunk of the response goes through hashStream (_hash.update, then
\* pushed on) and unzipStream; the bytes of the archive's one entry are
\* inflated into the write stream, bytes after the entry are not.  local.n
\* counts the chunks of the entry, then those that follow it.
InstallData(data, endsEntry, last) ==
    /\ pc = "i_stream"
    /\ ~local.resEnded
    /\ IF local.entryEnded
       THEN local.n < MaxTrailing /\ ((local.n + 1 = MaxTrailing) => last)
       ELSE local.n < MaxChunks /\ ((local.n + 1 = MaxChunks) => (endsEntry \/ last))
    /\ local' = [local EXCEPT !.hash = HashUpdate(local.hash, data),
                              !.n = IF ~local.entryEnded /\ endsEntry THEN 0
                                    ELSE local.n + 1,
                              !.entryEnded = local.entryEnded \/ endsEntry,
                              !.resEnded = last]
    /\ file' = IF local.entryEnded THEN file
               ELSE [file EXCEPT ![outputPath].content = Append(@, Inflate(data))]
    /\ UNCHANGED <<dirExists, host, hasher, link, top, pc, ver, result, pre, history>>

\* unzipStream 'error' (not an archive, or the response ended inside the
\* entry): reject
InstallUnzipError ==
    /\ pc = "i_stream"
    /\ ~local.entryEnded
    /\ Return("error", "unzip error")
    /\ UNCHANGED <<store, host, hasher, history>>

\* writeStream 'error': reject
InstallWriteError ==
    /\ pc = "i_stream"
    /\ Return("error", "write error")
    /\ UNCHANGED <<store, host, hasher, history>>

\* writeStream 'finish', once the entry has been written out:
\* resolve(hashStream.digest('hex')); install goes on to fetchSum
InstallFinish ==
    /\ pc = "i_stream"
    /\ local.entryEnded
    /\ local' = [InitLocal EXCEPT !.actualSum = Hex(local.hash)]
    /\ pc' = "f_request"
    /\ UNCHANGED <<store, host, hasher, top, ver, result, pre, history>>

\* --------------------------------------------------------------- fetchSum
\* fetchSum threw: install's catch block has the error
FetchSumThrows(error) ==
    /\ pc' = "i_catch"
    /\ local' = [InitLocal EXCEPT !.err = error]
    /\ UNCHANGED <<top, ver, result, pre>>

\* both request.get calls are made before Promise.all is awaited
FetchSumRequest ==
    /\ pc = "f_request"
    /\ reqs' = reqs \cup {getSumsUrl(ver), getSigUrl(ver)}
    /\ pc' = "f_await"
    /\ UNCHANGED <<store, host, hasher, top, ver, local, result, pre,
                   verified, aborted, compared, signature, parsed, symlinkResult>>

\* the manifest response arrives
FetchSumsResponse ==
    /\ pc = "f_await"
    /\ ~local.sumsDone
    /\ local' = [local EXCEPT !.sumsDone = TRUE]
    /\ pc' = IF local.sigDone THEN "f_verify" ELSE "f_await"
    /\ UNCHANGED <<store, host, hasher, top, ver, result, pre, history>>

\* mutant of FetchSigResponse: fetchSum goes on without the manifest
FetchSigResponseNoJoin ==
    /\ pc = "f_await"
    /\ ~local.sigDone
    /\ local' = [local EXCEPT !.sigDone = TRUE]
    /\ pc' = "f_verify"
    /\ UNCHANGED <<store, host, hasher, top, ver, result, pre, history>>

\* the signature response arrives
FetchSigResponse ==
    /\ pc = "f_await"
    /\ ~local.sigDone
    /\ local' = [local EXCEPT !.sigDone = TRUE]
    /\ pc' = IF local.sumsDone THEN "f_verify" ELSE "f_await"
    /\ UNCHANGED <<store, host, hasher, top, ver, result, pre, history>>

\* either request fails: Promise.all rejects
FetchSumRequestError ==
    /\ pc = "f_await"
    /\ FetchSumThrows("request error")
    /\ UNCHANGED <<store, host, hasher, history>>

\* mutant of FetchSumOutcome: the result of the verification is not looked at
FetchSumOutcomeUnchecked(version, text, sig) ==
    [threw |-> FALSE, error |-> "none",
     parsed |-> TRUE, value |-> SumsMapGet(text, getZipName(version))]

\* the outcome of fetchSum on the two response bodies, read here for the
\* first time: the error it throws, or the value it returns
FetchSumOutcome(version, text, sig) ==
    IF ~PgpVerify(text, sig, {publicKey})
    THEN [threw |-> TRUE, error |-> "Signature verification failed",
          parsed |-> FALSE, value |-> Undefined]
    ELSE [threw |-> FALSE, error |-> "none",
          parsed |-> TRUE, value |-> SumsMapGet(text, getZipName(version))]

\* openpgp.verify over sumsRes.text with the detached signature, then the
\* check of verified, the parse of the rows and the lookup
FetchSumVerify(text, sig) ==
    LET out == FetchSumOutcome(ver, text, sig) IN
    /\ pc = "f_verify"
    /\ signature' = IF PgpVerify(text, sig, {publicKey}) THEN "valid" ELSE "invalid"
    /\ parsed' = out.parsed
    /\ IF out.threw
       THEN FetchSumThrows(out.error)
       ELSE /\ pc' = "i_compare"
            /\ local' = [InitLocal EXCEPT !.actualSum = local.actualSum,
                                          !.expectedSum = out.value]
            /\ UNCHANGED <<top, ver, result, pre>>
    /\ UNCHANGED <<store, host, hasher, reqs, aborted, verified, compared, symlinkResult>>

\* ------------------------------------------------- install: verification
\* if (actualSum !== expectedSum) throw new Error('Hash verification failed')
InstallCompare ==
    /\ pc = "i_compare"
    /\ compared' = IF local.actualSum # local.expectedSum THEN "different" ELSE "equal"
    /\ IF local.actualSum # local.expectedSum
       THEN /\ pc' = "i_catch"
            /\ local' = [InitLocal EXCEPT !.err = "Hash verification failed"]
            /\ UNCHANGED verified
       ELSE /\ pc' = "i_chmod"
            /\ verified' = verified \cup {outputPath}
            /\ local' = InitLocal
    /\ UNCHANGED <<store, host, hasher, top, ver, result, pre, reqs, aborted, signature, parsed, symlinkResult>>

\* await fsPromises.chmod(outputPath, '755') succeeds; install returns
InstallChmod ==
    /\ pc = "i_chmod"
    /\ file' = [file EXCEPT ![outputPath].mode = "rwxr-xr-x"]
    /\ InstallReturns
    /\ UNCHANGED <<dirExists, host, hasher, link, history>>

\* chmod fails: the catch block has the error
InstallChmodError ==
    /\ pc = "i_chmod"
    /\ pc' = "i_catch"
    /\ local' = [InitLocal EXCEPT !.err = "chmod error"]
    /\ UNCHANGED <<store, host, hasher, top, ver, result, pre, history>>

\* mutant of InstallCatch: the error is rethrown without the unlink
InstallCatchKeepsFile ==
    /\ pc = "i_catch"
    /\ Return("error", local.err)
    /\ UNCHANGED <<store, host, hasher, history>>

\* catch (err) { await fsPromises.unlink(outputPath); throw err; }
InstallCatch ==
    /\ pc = "i_catch"
    /\ file' = [file EXCEPT ![outputPath] = NoFile]
    /\ verified' = verified \ {outputPath}
    /\ Return("error", local.err)
    /\ UNCHANGED <<dirExists, host, hasher, link, reqs, aborted, compared, signature, parsed, symlinkResult>>

\* ------------------------------------------------------------- setCurrent
\* setCurrent returned to its caller: uninstall goes on to unlink the file,
\* useCommand prints and ends
SetCurrentReturns ==
    IF top \in {"uninstall", "uninstallCommand"}
    THEN /\ pc' = "u_unlink"
         /\ UNCHANGED <<top, ver, local, result, pre>>
    ELSE Return("ok", "none")

\* mutant of SetCurrentUnlink: the file the link targeted goes with the link
SetCurrentUnlinkRemovesTarget ==
    /\ pc = "sc_unlink"
    /\ link' = <<>>
    /\ file' = IF link = <<>> THEN file ELSE [file EXCEPT ![link[1]] = NoFile]
    /\ pc' = "sc_symlink"
    /\ UNCHANGED <<dirExists, host, hasher, top, ver, local, result, pre, history>>

\* await fsPromises.unlink(CURRENT_LINK), ENOENT tolerated
SetCurrentUnlink ==
    /\ pc = "sc_unlink"
    /\ link' = <<>>
    /\ pc' = "sc_symlink"
    /\ UNCHANGED <<file, dirExists, host, hasher, top, ver, local, result, pre, history>>

\* version === null: no link is made
SetCurrentNull ==
    /\ pc = "sc_symlink"
    /\ local.target = Null
    /\ SetCurrentReturns
    /\ UNCHANGED <<store, host, hasher, history>>

\* await fsPromises.symlink(getPath(version), CURRENT_LINK) succeeds
SetCurrentSymlink ==
    /\ pc = "sc_symlink"
    /\ local.target # Null
    /\ link' = <<getPath(local.target)>>
    /\ symlinkResult' = "ok"
    /\ SetCurrentReturns
    /\ UNCHANGED <<file, dirExists, host, hasher, reqs, aborted, verified, compared, signature, parsed>>

\* what the catch block around symlink does with an error code:
\* "throw" (a new error replaces it) or "swallow" (nothing is thrown)
SymlinkCatch(code) == IF code = "EPERM" THEN "throw" ELSE "swallow"

\* symlink fails with an error code
SetCurrentSymlinkError(code) ==
    /\ pc = "sc_symlink"
    /\ local.target # Null
    /\ symlinkResult' = code
    /\ IF SymlinkCatch(code) = "throw"
       THEN Return("error", "Insufficient permissions to set new version")
       ELSE SetCurrentReturns
    /\ UNCHANGED <<store, host, hasher, reqs, aborted, verified, compared, signature, parsed>>

\* -------------------------------------------------------------- uninstall
\* uninstall returned to its caller
UninstallReturns ==
    IF top = "uninstallCommand"
    THEN /\ pc' = "uc_getCurrent"
         /\ UNCHANGED <<top, ver, local, result, pre>>
    ELSE Return("ok", "none")

\* mutant of UninstallGetCurrent: the Current Pointer is not looked at
UninstallGetCurrentSkipsPointer ==
    /\ pc = "u_getCurrent"
    /\ pc' = "u_unlink"
    /\ UNCHANGED <<store, host, hasher, top, ver, local, result, pre, history>>

\* if (await getCurrent() === version) await setCurrent(null)
UninstallGetCurrent ==
    /\ pc = "u_getCurrent"
    /\ pc' = IF getCurrent = ver THEN "sc_unlink" ELSE "u_unlink"
    /\ local' = [local EXCEPT !.target = Null]
    /\ UNCHANGED <<store, host, hasher, top, ver, result, pre, history>>

\* mutant of UninstallUnlink: CURRENT_LINK is unlinked instead of the file
UninstallUnlinkWrongPath ==
    /\ pc = "u_unlink"
    /\ link' = <<>>
    /\ UninstallReturns
    /\ UNCHANGED <<file, dirExists, host, hasher, history>>

\* await fsPromises.unlink(getPath(version)): ENOENT when there is no file
UninstallUnlink ==
    /\ pc = "u_unlink"
    /\ IF file[getPath(ver)].exists
       THEN /\ file' = [file EXCEPT ![getPath(ver)] = NoFile]
            /\ verified' = verified \ {getPath(ver)}
            /\ UninstallReturns
       ELSE /\ Return("error", "ENOENT")
            /\ UNCHANGED <<file, verified>>
    /\ UNCHANGED <<dirExists, host, hasher, link, reqs, aborted, compared, signature, parsed, symlinkResult>>

\* --------------------------------------------------------------- commands
\* error codes fsPromises.symlink may fail with
SymlinkErrors == {"EPERM", "EACCES", "EIO"}

\* the UTF-16 code units of a version token
CodeUnits(version) ==
    CASE version = "0.11.14" -> <<48, 46, 49, 49, 46, 49, 52>>
      [] version = "0.9.0" -> <<48, 46, 57, 46, 48>>

\* the order of Array.prototype.sort() without a compare function: strings
\* by their code units, a proper prefix before the longer string
RECURSIVE UnitsLess(_, _)
UnitsLess(a, b) ==
    IF b = <<>> THEN FALSE
    ELSE IF a = <<>> THEN TRUE
    ELSE IF Head(a) # Head(b) THEN Head(a) < Head(b)
    ELSE UnitsLess(Tail(a), Tail(b))

LexLess(v, w) == UnitsLess(CodeUnits(v), CodeUnits(w))

\* the basenames of the files under VERSIONS_DIR
DirEntries == {<<p[Len(p)]>> : p \in {q \in Paths : file[q].exists}}

\* fsPromises.readdir(VERSIONS_DIR): the entries in an order the file system
\* chooses
Readdir ==
    {files \in [1..Cardinality(DirEntries) -> DirEntries] :
        \A i, j \in DOMAIN files : i # j => files[i] # files[j]}

\* files.map(getVersion)
MapGetVersion(files) == [i \in DOMAIN files |-> getVersion(files[i])]

\* mutant of list: the versions in readdir's order
listUnsorted(files) == MapGetVersion(files)

\* list(): files.map(getVersion).sort()
list(files) == SortSeq(MapGetVersion(files), LexLess)

\* tfvm list
ListCommand == Begin("listCommand", Null, "list_run", Null)

\* getCurrent() and list() are read and the versions printed; readdir of a
\* directory that does not exist fails with ENOENT and list returns []
ListCommandRun ==
    /\ pc = "list_run"
    /\ IF dirExists
       THEN \E files \in Readdir : ReturnValue("ok", "none", list(files))
       ELSE ReturnValue("ok", "none", <<>>)
    /\ UNCHANGED <<store, host, hasher, history>>

\* tfvm use <version>
UseCommand(version) == Begin("useCommand", version, "use_isInstalled", version)

\* if (!await isInstalled(argv.version)) throw ...; await setCurrent(...)
UseCommandCheck ==
    /\ pc = "use_isInstalled"
    /\ IF isInstalled(ver)
       THEN /\ pc' = "sc_unlink"
            /\ UNCHANGED <<top, ver, local, result, pre>>
       ELSE Return("error", "Version is not installed")
    /\ UNCHANGED <<store, host, hasher, history>>

\* tfvm install <version>
InstallCommand(version) == Begin("installCommand", version, "ic_isInstalled", Null)

\* mutant of InstallCommandCheck: install is called whatever isInstalled says
InstallCommandCheckNoGuard ==
    /\ pc = "ic_isInstalled"
    /\ pc' = "i_mkdir"
    /\ UNCHANGED <<top, ver, local, result, pre, store, host, hasher, history>>

\* if (await isInstalled(argv.version)) "already installed" else install
InstallCommandCheck ==
    /\ pc = "ic_isInstalled"
    /\ IF isInstalled(ver)
       THEN Return("ok", "none")
       ELSE /\ pc' = "i_mkdir"
            /\ UNCHANGED <<top, ver, local, result, pre>>
    /\ UNCHANGED <<store, host, hasher, history>>

\* after install: if (await getCurrent() === null) await useCommand();
\* useCommand is called without argv, so reading argv.version throws
InstallCommandComplete ==
    /\ pc = "ic_getCurrent"
    /\ IF getCurrent = Null
       THEN Return("error", "TypeError")
       ELSE Return("ok", "none")
    /\ UNCHANGED <<store, host, hasher, history>>

\* tfvm uninstall <version>
UninstallCommand(version) == Begin("uninstallCommand", version, "uc_isInstalled", Null)

\* mutant of UninstallCommandCheck: uninstall is called whatever isInstalled says
UninstallCommandCheckNoGuard ==
    /\ pc = "uc_isInstalled"
    /\ pc' = "u_getCurrent"
    /\ UNCHANGED <<top, ver, local, result, pre, store, host, hasher, history>>

\* if (!await isInstalled(argv.version)) throw ...; await uninstall(...)
UninstallCommandCheck ==
    /\ pc = "uc_isInstalled"
    /\ IF isInstalled(ver)
       THEN /\ pc' = "u_getCurrent"
            /\ UNCHANGED <<top, ver, local, result, pre>>
       ELSE Return("error", "Version is not installed")
    /\ UNCHANGED <<store, host, hasher, history>>

\* "Complete", and a warning when getCurrent() is null
UninstallCommandComplete ==
    /\ pc = "uc_getCurrent"
    /\ Return("ok", "none")
    /\ UNCHANGED <<store, host, hasher, history>>

\* ------------------------------------------------- direct function calls
CallInstall(version) == Begin("install", version, "i_mkdir", Null)
CallUninstall(version) == Begin("uninstall", version, "u_getCurrent", Null)
CallSetCurrent(version) == Begin("setCurrent", version, "sc_unlink", version)

\* ---------------------------------------------------------- sha256Stream
\* stream.write(data): the Transform keeps the chunk in its writable buffer
\* until _transform has taken the chunks before it
HasherWrite(data) ==
    /\ Len(hasher.written) < MaxWrites
    /\ hasher' = [hasher EXCEPT !.written = Append(@, data),
                                !.buffer = Append(@, data)]
    /\ UNCHANGED program

\* _transform, first statement: this._hash.update(data, encoding)
HasherUpdate ==
    /\ hasher.at = "ready"
    /\ hasher.buffer # <<>>
    /\ hasher' = [hasher EXCEPT !.hash = HashUpdate(@, Head(hasher.buffer)),
                                !.updates = Append(@, Head(hasher.buffer)),
                                !.at = "updated"]
    /\ UNCHANGED program

\* mutant of HasherCallback: callback() is called without the chunk
HasherCallbackWithoutData ==
    /\ hasher.at = "updated"
    /\ hasher' = [hasher EXCEPT !.buffer = Tail(@), !.at = "ready"]
    /\ UNCHANGED program

\* _transform, second statement: callback(null, data) pushes the chunk
\* downstream and lets the Transform take the next one
HasherCallback ==
    /\ hasher.at = "updated"
    /\ hasher' = [hasher EXCEPT !.emitted = Append(@, Head(hasher.buffer)),
                                !.buffer = Tail(@),
                                !.at = "ready"]
    /\ UNCHANGED program

\* --------------------------------------------------------- specifications
\* the steps of the function bodies, shared by both specifications
Steps ==
    \/ InstallMkdir
    \/ InstallRequest
    \/ InstallResponseOk
    \/ \E status \in Statuses : InstallResponseBad(status)
    \/ InstallRequestError
    \/ \E data \in Bytes, endsEntry \in BOOLEAN, last \in BOOLEAN :
           InstallData(data, endsEntry, last)
    \/ InstallUnzipError
    \/ InstallWriteError
    \/ InstallFinish
    \/ FetchSumRequest
    \/ FetchSumsResponse
    \/ FetchSigResponse
    \/ FetchSumRequestError
    \/ \E text \in ManifestTexts, key \in Keys :
           \E over \in {text, <<>>} : FetchSumVerify(text, PgpSign(key, over))
    \/ InstallCompare
    \/ InstallChmod
    \/ InstallChmodError
    \/ InstallCatch
    \/ SetCurrentUnlink
    \/ SetCurrentNull
    \/ SetCurrentSymlink
    \/ \E code \in SymlinkErrors : SetCurrentSymlinkError(code)
    \/ UninstallGetCurrent
    \/ UninstallUnlink

Next ==
    \/ ListCommand
    \/ ListCommandRun
    \/ \E version \in Versions : UseCommand(version)
    \/ UseCommandCheck
    \/ \E version \in Versions : InstallCommand(version)
    \/ InstallCommandCheck
    \/ InstallCommandComplete
    \/ \E version \in Versions : UninstallCommand(version)
    \/ UninstallCommandCheck
    \/ UninstallCommandComplete
    \/ Steps

Spec == Init /\ [][Next]_vars

\* the commands, and the functions called directly
NextApi ==
    \/ Next
    \/ \E version \in Versions : CallInstall(version)
    \/ \E version \in Versions : CallUninstall(version)
    \/ \E version \in Versions \cup {Null} : CallSetCurrent(version)

SpecApi == Init /\ [][NextApi]_vars

\* a sha256Stream on its own, written to by whatever is piped into it
NextHasher ==
    \/ \E data \in Bytes : HasherWrite(data)
    \/ HasherUpdate
    \/ HasherCallback

SpecHasher == Init /\ [][NextHasher]_vars

\* what the event loop does for a call that has begun: a step of a function
\* body or of a command handler
Continue ==
    \/ Steps
    \/ ListCommandRun
    \/ UseCommandCheck
    \/ InstallCommandCheck
    \/ InstallCommandComplete
    \/ UninstallCommandCheck
    \/ UninstallCommandComplete

\* the commands, every pending network or file event eventually completing
\* or failing and its callback being run
SpecFair == Spec /\ WF_vars(Continue)

\* the commands, on each kind of machine
SpecHost == InitHost /\ [][Next]_vars

\* ================================================================= claims
\* the path the last finished call was about
resultPath == getPath(result.version)

\* the errors install throws (installCommand adds the TypeError of its own
\* call of useCommand, made after install has returned)
InstallErrors ==
    {DownloadFailed(status) : status \in Statuses \ {200}} \cup
    {"Unsupported platform: " \o p : p \in Platforms} \cup
    {"Unsupported architecture: " \o a : a \in Archs} \cup
    {"request error", "unzip error", "write error",
     "Signature verification failed", "Hash verification failed", "chmod error"}

\* the last finished call was install, called directly or by the install
\* command, and install threw
InstallFailed ==
    /\ pc = "idle"
    /\ result.op \in {"install", "installCommand"}
    /\ result.status = "error"
    /\ result.error \in InstallErrors

\* C1: whenever install(version) fails, at whatever stage, no file exists
\* at that version's install path when the error reaches the caller.
C1_FailedInstallLeavesNoFile ==
    InstallFailed => ~file[resultPath].exists

\* C2: in every state, also in the middle of an install, a file exists at
\* an install path only if its archive digest has already been compared
\* equal to the digest of the signature-verified manifest.
C2_FileExistsOnlyIfVerified ==
    \A p \in Paths : file[p].exists => p \in verified

\* C3: when the computed digest differs from the expected digest of the
\* manifest, install fails with the hash-mismatch error and no file remains
\* at the install path.
C3_DigestMismatchFailsAndCleansUp ==
    /\ (compared = "different" /\ pc # "idle")
           => (pc = "i_catch" /\ local.err = "Hash verification failed")
    /\ (compared = "different" /\ pc = "idle")
           => /\ result.op \in {"install", "installCommand"}
              /\ result.status = "error"
              /\ result.error = "Hash verification failed"
              /\ ~file[resultPath].exists

\* C3 happens: an install ended on a digest mismatch
C3_Witness ==
    /\ pc = "idle"
    /\ compared = "different"
    /\ result.error = "Hash verification failed"

\* C4: when the detached signature does not validate over the manifest
\* text, fetchSum fails with the signature error before the manifest is
\* parsed, install makes no digest comparison, and no file remains at the
\* install path once install has failed.
C4_BadSignatureAbortsBeforeCompare ==
    signature = "invalid" =>
        /\ ~parsed
        /\ compared = "no"
        /\ pc # "idle" => (pc = "i_catch" /\ local.err = "Signature verification failed")
        /\ pc = "idle" => /\ result.status = "error"
                          /\ result.error = "Signature verification failed"
                          /\ ~file[resultPath].exists

\* C4 happens: an install ended on a signature that did not validate
C4_Witness ==
    /\ pc = "idle"
    /\ signature = "invalid"
    /\ result.op = "install"
    /\ result.status = "error"

\* C5: after any sequence of the commands list, install, use and uninstall,
\* the Current Pointer is absent or targets the install path of a version
\* whose file exists and was installed by a fully verified install.
C5_PointerTargetsVerifiedFile ==
    pc = "idle" =>
        \/ link = <<>>
        \/ /\ link[1] \in Paths
           /\ file[link[1]].exists
           /\ link[1] \in verified

\* C6 as stated: install(version), called when a file already exists at
\* the install path, issues no HTTP request and leaves the file's content
\* and permissions as they were.
C6_InstallOnInstalledIsNoOp ==
    (pc = "idle" /\ result.op = "install" /\ pre.file[resultPath].exists)
        => (reqs = {} /\ file[resultPath] = pre.file[resultPath])

\* C6 amended: the install command, run for a version whose file already
\* exists, issues no HTTP request, leaves every file as it was and ends
\* without error (the guard is in installCommand, not in install).
C6_InstallCommandOnInstalledIsNoOp ==
    /\ (top = "installCommand" /\ pre.file[getPath(ver)].exists)
           => (pc = "ic_isInstalled" /\ reqs = {} /\ file = pre.file)
    /\ (pc = "idle" /\ result.op = "installCommand" /\ pre.file[resultPath].exists)
           => (reqs = {} /\ file = pre.file /\ result.status = "ok")

\* C6 happens: the install command ended for a version already installed
C6_Witness ==
    /\ pc = "idle"
    /\ result.op = "installCommand"
    /\ pre.file[resultPath].exists
    /\ pre.file[resultPath].mode = "rwxr-xr-x"

\* C7 as stated: uninstall(version) for a version with no file at its
\* install path fails and changes nothing, whatever the Current Pointer
\* targeted (the raw ENOENT is taken as the not-installed error here).
C7_UninstallOfMissingChangesNothing ==
    (pc = "idle" /\ result.op = "uninstall" /\ ~pre.file[resultPath].exists)
        => /\ result.status = "error"
           /\ link = pre.link
           /\ file = pre.file

\* C7 amended: the uninstall command for a version with no file at its
\* install path fails with the not-installed error and changes nothing,
\* whatever the Current Pointer targeted.
C7_UninstallCommandOfMissingChangesNothing ==
    /\ (top = "uninstallCommand" /\ ~pre.file[getPath(ver)].exists)
           => (pc = "uc_isInstalled" /\ link = pre.link /\ file = pre.file)
    /\ (pc = "idle" /\ result.op = "uninstallCommand" /\ ~pre.file[resultPath].exists)
           => /\ result.status = "error"
              /\ result.error = "Version is not installed"
              /\ link = pre.link
              /\ file = pre.file

\* C7 happens: the uninstall command ended for a version with no file
\* while the Current Pointer targeted that very version
C7_Witness ==
    /\ pc = "idle"
    /\ result.op = "uninstallCommand"
    /\ ~pre.file[resultPath].exists
    /\ pre.link = <<resultPath>>

\* the running call is uninstall, called directly or by the command
Uninstalling == top \in {"uninstall", "uninstallCommand"}

\* C8: uninstall(version) on the installed version the Current Pointer
\* targets succeeds; it removes the pointer strictly before the file, so
\* that in no intermediate state the pointer targets a deleted file; and
\* afterwards getCurrent() returns absent.
C8_UninstallCurrentClearsPointerFirst ==
    /\ [](/\ (Uninstalling /\ pre.file[getPath(ver)].exists /\ link = <<getPath(ver)>>)
               => file[getPath(ver)].exists
          /\ (/\ pc = "idle"
              /\ result.op \in {"uninstall", "uninstallCommand"}
              /\ pre.file[resultPath].exists
              /\ pre.link = <<resultPath>>)
               => /\ result.status = "ok"
                  /\ getCurrent = Null
                  /\ ~file[resultPath].exists)
    /\ [][(/\ Uninstalling
           /\ file[getPath(ver)].exists
           /\ ~file'[getPath(ver)].exists)
              => (link # <<getPath(ver)>> /\ link' = link)]_vars

\* C8 happens: an uninstall of the installed, current version ended
C8_Witness ==
    /\ pc = "idle"
    /\ result.op = "uninstall"
    /\ pre.file[resultPath].exists
    /\ pre.link = <<resultPath>>

\* C9: after a successful install of V, isInstalled(V) is true; after a
\* successful uninstall of V that follows, isInstalled(V) is false.
C9_InstallUninstallRoundTrip ==
    /\ (pc = "idle" /\ result.op = "install" /\ result.status = "ok")
           => isInstalled(result.version)
    /\ pc = "ic_getCurrent" => isInstalled(ver)
    /\ (pc = "idle" /\ result.op \in {"uninstall", "uninstallCommand"}
                    /\ result.status = "ok")
           => ~isInstalled(result.version)
    /\ pc = "uc_getCurrent" => ~isInstalled(ver)

\* C9 happens: a version installed by a successful install (verified, made
\* executable) has been uninstalled successfully
C9_Witness ==
    /\ pc = "idle"
    /\ result.op = "uninstall"
    /\ result.status = "ok"
    /\ pre.file[resultPath].mode = "rwxr-xr-x"
    /\ ~isInstalled(result.version)

\* C10: setCurrent(version), version not null: a symlink denied for lack
\* of permission makes it fail with the permission error, any other
\* symlink error is propagated to the caller, and it never returns
\* successfully without the new link in place.
C10_SetCurrentReportsSymlinkErrors ==
    (pc = "idle" /\ result.op \in {"setCurrent", "useCommand"} /\ result.version # Null)
        => /\ symlinkResult = "EPERM"
                => (/\ result.status = "error"
                    /\ result.error = "Insufficient permissions to set new version")
           /\ symlinkResult \in SymlinkErrors => result.status = "error"
           /\ result.status = "ok" => link = <<resultPath>>

\* C11: for an installed version V, setCurrent(V) followed by
\* setCurrent(null) succeeds and leaves getCurrent() absent and V's file in
\* place; at no step does clearing the pointer remove or modify a version
\* file.
C11_ClearingPointerKeepsFiles ==
    /\ (top = "setCurrent" /\ local.target = Null) => file = pre.file
    /\ (pc = "idle" /\ result.op = "setCurrent" /\ result.version = Null)
           => /\ result.status = "ok"
              /\ getCurrent = Null
              /\ file = pre.file
              /\ \A v \in Versions : pre.link = <<getPath(v)>> =>
                     (isInstalled(v) <=> pre.file[getPath(v)].exists)

\* C11 happens: setCurrent(null) ended in a store where the pointer
\* targeted an installed version
C11_Witness ==
    /\ pc = "idle"
    /\ result.op = "setCurrent"
    /\ result.version = Null
    /\ \E v \in Versions : pre.link = <<getPath(v)>> /\ isInstalled(v)

\* the yargs commands, each wrapped by commandRunner
Commands == {"listCommand", "useCommand", "installCommand", "uninstallCommand"}

\* commandRunner: the catch block sets process.exitCode = 1; otherwise it
\* is never set and the process exits with 0
exitCode == IF result.op \in Commands /\ result.status = "error" THEN 1 ELSE 0

\* commandRunner: console.error(`ERROR: ${err.message}`), in the catch block only
errorLine == IF result.op \in Commands /\ result.status = "error" THEN result.error ELSE "none"

\* the install the last install command ran downloaded the archive, found
\* its digest equal to the verified manifest's and made the file executable
InstallSucceeded ==
    /\ result.op = "installCommand"
    /\ compared = "equal"
    /\ file[resultPath].exists
    /\ file[resultPath].mode = "rwxr-xr-x"

\* C12: for each command the exit code is non-zero exactly when the
\* command's operation failed, and an error line goes with it; an install
\* command whose install downloaded, verified and wrote the artifact ends
\* with exit code zero and no error line, whatever the store was, also
\* with no current version.
C12_ExitCodeTellsFailure ==
    (pc = "idle" /\ result.op \in Commands)
        => /\ exitCode # 0 <=> errorLine # "none"
           /\ InstallSucceeded => (exitCode = 0 /\ errorLine = "none")

\* the running call is install, called directly or by the install command
Installing == top \in {"install", "installCommand"}

\* C13: when the archive response has a non-success status, install aborts
\* the request and fails with the download error that carries that status,
\* and no file is created at the install path at any point of that
\* install; the output file is opened only after a success status.
C13_BadStatusAbortsWithoutFile ==
    /\ (Installing /\ pc \in {"i_mkdir", "i_request", "i_response"}) => file = pre.file
    /\ (Installing /\ pc \notin {"ic_isInstalled", "i_mkdir", "i_request", "i_response"})
           => aborted = NotAborted
    /\ aborted # NotAborted
           => /\ pc = "idle"
              /\ result.op \in {"install", "installCommand"}
              /\ result.status = "error"
              /\ result.error = DownloadFailed(aborted)
              /\ aborted \in Statuses \ {200}
              /\ file = pre.file
    /\ (pc = "idle" /\ result.error \in {DownloadFailed(s) : s \in Statuses})
           => aborted # NotAborted

\* C13 happens: an install ended on status 500
C13_Witness ==
    /\ pc = "idle"
    /\ result.op = "install"
    /\ aborted = 500
    /\ ~file[resultPath].exists

\* C14: fetchSum on a manifest whose signature validates but which has no
\* line for the expected archive filename fails with a checksum-not-found
\* error: it never returns a value, such as an undefined digest, to
\* install (install holds fetchSum's value when it is about to compare).
C14_MissingRowIsAnError ==
    (pc = "i_compare" /\ signature = "valid") => local.expectedSum # Undefined

\* C15: a successful install of V into a store with no Current Pointer
\* leaves the pointer absent: getCurrent() is absent after the install
\* command, nothing but a use command makes it present, and after a use V
\* command that succeeded getCurrent() returns V.
C15_PointerAbsentUntilUse ==
    /\ [](/\ (pc = "idle" /\ InstallSucceeded /\ pre.link = <<>>) => getCurrent = Null
          /\ (pc = "idle" /\ result.op = "useCommand" /\ result.status = "ok")
                 => getCurrent = result.version)
    /\ [][(link = <<>> /\ link' # <<>>) => top = "useCommand"]_vars

\* the versions whose file is present under the versions directory
Present == {v \in Versions : file[getPath(v)].exists}

\* C16: list() returns exactly the version tokens of the files present in
\* the versions directory, each once, in ascending lexicographic order, and
\* the empty sequence, not an error, when the directory does not exist or
\* is empty.
C16_ListIsSortedAndExact ==
    (pc = "idle" /\ result.op = "listCommand")
        => /\ result.status = "ok"
           /\ {result.value[i] : i \in DOMAIN result.value} = Present
           /\ Len(result.value) = Cardinality(Present)
           /\ \A i, j \in DOMAIN result.value :
                  i < j => LexLess(result.value[i], result.value[j])
           /\ (~dirExists \/ Present = {}) => result.value = <<>>

\* C16 happens: list returned two versions, the one that is later by its
\* numbers first
C16_Witness ==
    /\ pc = "idle"
    /\ result.op = "listCommand"
    /\ result.value = <<"0.11.14", "0.9.0">>

\* C17: the Platform Resolver maps win32, darwin and linux to windows,
\* darwin and linux, and ia32 and x64 to 386 and amd64; for every other OS
\* or architecture it fails with the unsupported-platform or
\* unsupported-architecture error, and then the install that needed it has
\* performed no I/O: no directory created, no request sent, no file written.
C17_ResolverMapsOrFailsBeforeIO ==
    /\ host.platform = "win32" => getPlatform = Returned("windows")
    /\ host.platform = "darwin" => getPlatform = Returned("darwin")
    /\ host.platform = "linux" => getPlatform = Returned("linux")
    /\ host.platform \notin {"win32", "darwin", "linux"}
           => getPlatform = Threw("Unsupported platform: " \o host.platform)
    /\ host.arch = "ia32" => getArch = Returned("386")
    /\ host.arch = "x64" => getArch = Returned("amd64")
    /\ host.arch \notin {"ia32", "x64"}
           => getArch = Threw("Unsupported architecture: " \o host.arch)
    /\ (/\ pc = "idle"
        /\ result.op \in {"install", "installCommand"}
        /\ getZipNameError # "none")
           => /\ result.status = "error"
              /\ result.error = getZipNameError
              /\ dirExists = pre.dirExists
              /\ reqs = {}
              /\ file = pre.file

\* s is t or the beginning of t
IsPrefix(s, t) == Len(s) <= Len(t) /\ s = SubSeq(t, 1, Len(s))

\* C18: for every sequence of chunks written to the Streaming Hasher, the
\* chunks it emits are those chunks, unmodified, in the same order, none
\* dropped or duplicated (what was written is what was emitted followed by
\* what still waits), and the hash state was updated with each chunk
\* before that chunk was emitted.
C18_HasherPassesChunksThrough ==
    /\ hasher.written = hasher.emitted \o hasher.buffer
    /\ IsPrefix(hasher.emitted, hasher.updates)
    /\ IsPrefix(hasher.updates, hasher.written)
    /\ Len(hasher.updates) = Len(hasher.emitted) + (IF hasher.at = "updated" THEN 1 ELSE 0)
    /\ hasher.hash = Sha256(hasher.updates)

\* C18 happens: all of the most chunks, not all alike, went through
C18_Witness ==
    /\ Len(hasher.written) = MaxWrites
    /\ hasher.emitted = hasher.written
    /\ \E i, j \in DOMAIN hasher.written : hasher.written[i] # hasher.written[j]

\* C19: the digest install compares is the SHA-256 of the complete archive
\* byte sequence of the download, taken before extraction: when the digest
\* is read, at the write sink's finish event, the hasher has consumed every
\* byte of the response, also the archive bytes that follow the entry.
C19_DigestCoversWholeArchive ==
    [][(pc = "i_stream" /\ pc' = "f_request")
          => (local.resEnded /\ local'.actualSum = Hex(local.hash))]_vars

\* the two requests of fetchSum
FetchSumUrls(version) == {getSumsUrl(version), getSigUrl(version)}

\* C20: in fetchSum the manifest fetch and the signature fetch are both
\* issued before either is awaited; signature verification starts only
\* after both have completed, in either order; and if either fetch fails,
\* fetchSum fails without verifying and without returning a digest.
C20_FetchesJoinBeforeVerify ==
    /\ [](/\ pc \in {"f_await", "f_verify"} => FetchSumUrls(ver) \subseteq reqs
          /\ pc = "f_await" => (signature = "no" /\ ~(local.sumsDone /\ local.sigDone))
          /\ pc = "f_verify" => (signature = "no" /\ local.sumsDone /\ local.sigDone)
          /\ (pc = "i_catch" /\ local.err = "request error")
                 => /\ signature = "no"
                    /\ ~parsed
                    /\ compared = "no"
                    /\ local.expectedSum = Undefined)
    /\ [][(signature = "no" /\ signature' # "no")
              => (pc = "f_verify" /\ local.sumsDone /\ local.sigDone)]_vars
    /\ [][(pc = "f_await" /\ pc' \notin {"f_await", "f_verify"})
              => (pc' = "i_catch" /\ local'.err = "request error")]_vars

\* C20 happens: the signature was verified, both responses having arrived
C20_Witness ==
    /\ pc = "i_compare"
    /\ signature = "valid"
    /\ FetchSumUrls(ver) \subseteq reqs

C22_ExecutableOnlyIfVerified ==
    /\ \A p \in Paths : file[p].mode = "rwxr-xr-x" => (file[p].exists /\ p \in verified)
    /\ pc = "i_chmod" => compared = "equal"
    /\ pc = "ic_getCurrent"
           => (compared = "equal" /\ file[getPath(ver)].mode = "rwxr-xr-x")
    /\ (pc = "idle" /\ result.op = "install" /\ result.status = "ok")
           => file[resultPath].mode = "rwxr-xr-x"

\* C22 happens: the install of an install command succeeded, and the file
\* is executable and verified
C22_Witness ==
    /\ pc = "idle"
    /\ InstallSucceeded
    /\ resultPath \in verified

\* C23: setCurrent(version) is all-or-nothing for the Current Pointer: when
\* the call does not end with a link to the requested version in place,
\* whatever made the link creation fail, the pointer still targets what it
\* targeted before the call.
C23_SetCurrentAllOrNothing ==
    (/\ pc = "idle"
     /\ result.op \in {"setCurrent", "useCommand"}
     /\ result.version # Null
     /\ link # <<resultPath>>)
        => link = pre.link

====
